---- MODULE Spec2Model ----
(***************************************************************************)
(* A model of ai-improve-issue: the RAG index/search subsystem             *)
(* (rag_client.py, tools.py) and the pydantic-graph workflow nodes         *)
(* (graph_nodes.py, workflow_graph.py, main.py).                           *)
(*                                                                         *)
(* Text is a sequence of one-character strings, so that len(), slicing,    *)
(* replace() and strip() are computed as Python computes them.             *)
(***************************************************************************)
EXTENDS Integers, Sequences, FiniteSets, TLC

None == "None"
\* an optional value that is no string: <<>> for None, <<v>> for v
No == <<>>
Some(v) == << v >>
The(o) == o[1]

\* ------------------------------------------------------------------ text

SP == " "
NL == "\n"
TAB == "\t"
CR == "\r"
\* U+3002, the first separator of create_issue_chunks
MARU == "IDEOGRAPHIC_FULL_STOP"

\* the characters str.strip() removes that occur in the model's texts
Whitespace == {SP, NL, TAB, CR}

MinOf(S) == CHOOSE x \in S : \A y \in S : x <= y

\* n copies of the text s
Rep(s, n) == [i \in 1..(n * Len(s)) |-> s[((i - 1) % Len(s)) + 1]]

\* str.strip()
Strip(t) ==
    LET keep == {i \in 1..Len(t) : t[i] \notin Whitespace}
        lo == CHOOSE i \in keep : \A j \in 1..(i - 1) : t[j] \in Whitespace
        hi == CHOOSE i \in keep : \A j \in (i + 1)..Len(t) : t[j] \in Whitespace
    IN  IF keep = {} THEN <<>> ELSE SubSeq(t, lo, hi)

\* ------------------------------------------------------------- chunker

ChunkSize == 400
ChunkOverlap == 50
Separators == << <<MARU>>, <<NL, NL>>, <<NL>>, <<SP>>, <<>> >>

\* sep occurs in t at position i
MatchAt(t, sep, i) ==
    /\ i + Len(sep) - 1 <= Len(t)
    /\ SubSeq(t, i, i + Len(sep) - 1) = sep

Occurs(t, sep) == \E i \in 1..Len(t) : MatchAt(t, sep, i)

\* the number of consecutive characters c that end right before position i
RunBefore(t, c, i) ==
    CHOOSE k \in 0..(i - 1) : /\ \A j \in 1..k : t[i - j] = c
                              /\ (k = i - 1 \/ t[i - k - 1] # c)

\* the starts of the leftmost non-overlapping occurrences of sep, as
\* re.split finds them (every separator repeats one character)
MatchStarts(t, sep) ==
    {i \in 1..Len(t) : /\ MatchAt(t, sep, i)
                       /\ (Len(sep) = 1 \/ RunBefore(t, sep[1], i) % Len(sep) = 0)}

\* the elements of S within a..b, in increasing order
RECURSIVE SortedIn(_, _, _)
SortedIn(S, a, b) ==
    IF a > b THEN <<>>
    ELSE IF a = b THEN (IF a \in S THEN << a >> ELSE <<>>)
    ELSE LET m == (a + b) \div 2
         IN  SortedIn(S, a, m) \o SortedIn(S, m + 1, b)

\* _split_text_with_regex with keep_separator=True, as the start positions
\* of the pieces: the text is cut in front of every occurrence of sep (each
\* separator stays at the start of the piece it opens; empty pieces are
\* dropped); with sep "" every character is a piece
PieceStarts(t, sep) ==
    IF sep = <<>> THEN [i \in 1..Len(t) |-> i]
    ELSE SortedIn(MatchStarts(t, sep) \cup {1}, 1, Len(t))

PieceEnd(t, st, k) == IF k < Len(st) THEN st[k + 1] - 1 ELSE Len(t)
PieceLen(t, st, k) == PieceEnd(t, st, k) - st[k] + 1
Piece(t, st, k) == SubSeq(t, st[k], PieceEnd(t, st, k))
\* the summed length of pieces lo..hi (they are adjacent in t)
Total(t, st, lo, hi) == IF lo > hi THEN 0 ELSE PieceEnd(t, st, hi) - st[lo] + 1

\* _join_docs of pieces lo..hi with separator "": the joined text,
\* stripped; nothing when it is empty
JoinDocs(t, st, lo, hi) ==
    LET text == Strip(SubSeq(t, st[lo], PieceEnd(t, st, hi)))
    IN  IF text = <<>> THEN <<>> ELSE << text >>

\* the inner while loop of _merge_splits: current_doc is pieces lo..i-1 and
\* piece i comes next; pieces are popped from the front while the rest is
\* longer than the overlap, or does not fit together with piece i
PopTo(t, st, lo, i) ==
    MinOf({l \in lo..i :
            ~ (\/ Total(t, st, l, i - 1) > ChunkOverlap
               \/ /\ Total(t, st, l, i - 1) + PieceLen(t, st, i) > ChunkSize
                  /\ Total(t, st, l, i - 1) > 0)})

\* _merge_splits over pieces ..hi, with current_doc = pieces lo..i-1 and
\* piece i the next of the for loop: one chunk is emitted per level
RECURSIVE MergeFrom(_, _, _, _, _)
MergeFrom(t, st, lo, i, hi) ==
    LET full == {j \in i..hi : /\ j > lo
                               /\ Total(t, st, lo, j - 1) + PieceLen(t, st, j)
                                    > ChunkSize}
    IN  IF full = {} THEN (IF lo > hi THEN <<>> ELSE JoinDocs(t, st, lo, hi))
        ELSE LET j == MinOf(full)
             IN  JoinDocs(t, st, lo, j - 1)
                 \o MergeFrom(t, st, PopTo(t, st, lo, j), j + 1, hi)

\* _merge_splits(pieces lo..hi, "")
MergeSplits(t, st, lo, hi) == MergeFrom(t, st, lo, lo, hi)

\* the index of the separator _split_text picks: the first one that is ""
\* or occurs in the text (the last one when none does)
PickSeparator(t, seps) ==
    LET ok == {i \in 1..Len(seps) : seps[i] = <<>> \/ Occurs(t, seps[i])}
    IN  IF ok = {} THEN Len(seps) ELSE MinOf(ok)

\* RecursiveCharacterTextSplitter._split_text: the for loop over the pieces
\* from piece i on, one level per piece of chunk_size or more; the shorter
\* pieces before it are the _good_splits that are merged
RECURSIVE SplitText(_, _)
RECURSIVE SplitLoop(_, _, _, _)
SplitLoop(t, st, i, newseps) ==
    LET big == {k \in i..Len(st) : PieceLen(t, st, k) >= ChunkSize}
    IN  IF big = {}
        THEN (IF i > Len(st) THEN <<>> ELSE MergeSplits(t, st, i, Len(st)))
        ELSE LET k == MinOf(big)
             IN  (IF k > i THEN MergeSplits(t, st, i, k - 1) ELSE <<>>)
                 \o (IF newseps = <<>> THEN << Piece(t, st, k) >>
                     ELSE SplitText(Piece(t, st, k), newseps))
                 \o SplitLoop(t, st, k + 1, newseps)

SplitText(t, seps) ==
    LET k == PickSeparator(t, seps)
        found == seps[k] # <<>> /\ Occurs(t, seps[k])
        newseps == IF found THEN SubSeq(seps, k + 1, Len(seps)) ELSE <<>>
    IN  SplitLoop(t, PieceStarts(t, seps[k]), 1, newseps)

\* f"{issue_title}\n\n{issue_body}"
FullText(title, body) == title \o <<NL, NL>> \o body

\* mutant of create_issue_chunks: the splitter is used for every text
create_issue_chunks_AlwaysSplit(issue_title, issue_body) ==
    SplitText(FullText(issue_title, issue_body), Separators)

create_issue_chunks(issue_title, issue_body) ==
    LET full_text == FullText(issue_title, issue_body)
    IN  IF Len(full_text) <= ChunkSize THEN << full_text >>
        ELSE SplitText(full_text, Separators)

\* -------------------------------------------------------------- bounds

\* issue numbers are 1..MaxIssue
MaxIssue == 2
\* graph runs one worker starts in a behaviour
MaxRuns == 2

\* similarity scores are 1..MaxScore
MaxScore == 3
\* points in the store when a search specification starts
MaxPoints == 4
\* rag.top_k and the limit of a search are 1..MaxTopK
MaxTopK == 2

Issues == 1..MaxIssue
Scores == 1..MaxScore
Workers == {"w1", "w2"}

\* ------------------------------------------------------------ variables

VARIABLES
    collection,  \* the Qdrant collection: "absent", "indexed" (it has the
                 \* payload index on issue_number) or "unindexed"
    store,       \* the points of the collection
    nextId,      \* the next fresh point id (uuid4 never repeats one)
    workers,     \* the workers (processes running graphs) of this behaviour
    run,         \* per worker: the graph run in progress, its state object,
                 \* the locals of the step in progress
    runs         \* graph runs started so far

vars == <<collection, store, nextId, workers, run, runs>>

\* ----------------------------------------------------------- documents

Title == <<"t">>
Word == <<"a", "b", "c", "d", SP>>
\* bodies: empty (the document is one chunk), and one cut into several
\* chunks
Bodies == {<<>>, Rep(Word, 90)}

\* titles and bodies of new issues: too short; eight letters and two
\* Windows line ends; nine letters among blanks; exactly ten letters; a
\* text of several chunks
Texts ==
    {<<Title, <<"b", "o", "d", "y">>>>,
     <<<<>>, Rep(<<"x">>, 8) \o <<CR, NL, CR, NL>>>>,
     <<Title, <<SP, TAB>> \o Rep(<<"x">>, 8) \o <<NL, SP>>>>,
     <<Title, Rep(<<"x">>, 9)>>,
     <<Title, Rep(Word, 90)>>}

\* create_issue_chunks of the documents above, computed once
ChunkTable ==
    [d \in {<<Title, b>> : b \in Bodies} \cup Texts |->
        create_issue_chunks(d[1], d[2])]

\* create_issue_chunks, read from the table where the table has it
Chunks(issue_title, issue_body) ==
    IF <<issue_title, issue_body>> \in DOMAIN ChunkTable
    THEN ChunkTable[<<issue_title, issue_body>>]
    ELSE create_issue_chunks(issue_title, issue_body)

\* models.IssueData
IssueData(number, title, body, state) ==
    [number |-> number, title |-> title, body |-> body, state |-> state,
     url |-> <<"url", number>>, labels |-> <<>>]

\* what the issue tracker can hold for one issue number
IssueVersions == {IssueData(n, Title, b, "open") : n \in Issues, b \in Bodies}

\* ---------------------------------------------------------------- store

ScrollLimit == 256

\* the payload upsert_issue_chunks gives chunk i (0-based) of an issue
Payload(issue_number, i, chunk, title, state, url, labels) ==
    [issue_number |-> issue_number, chunk_index |-> i, issue_title |-> title,
     issue_body_chunk |-> chunk, state |-> state, url |-> url,
     labels |-> labels]

\* a vector is modelled by the one thing a search reads from it: its cosine
\* similarity to the query vector of the behaviour, a score
Point(id, vector, payload) == [id |-> id, vector |-> vector, payload |-> payload]

\* mutant of Matching: the scroll filter is ignored
Matching_Any(S, d) == S

\* the points whose payload matches the scroll filter issue_number = d
Matching(S, d) == {pt \in S : pt.payload.issue_number = d}

\* mutant of Scroll: the page never announces a next page, as when the
\* loop stopped after its first scroll call
Scroll_FirstPageOnly(S, d, limit, offset) ==
    LET ids == {pt.id : pt \in Matching(S, d)}
        page == IF Cardinality(ids) <= limit THEN ids
                ELSE {i \in ids : Cardinality({j \in ids : j < i}) < limit}
    IN  [points |-> page, next_offset |-> No]

\* client.scroll(filter, limit, offset): the first `limit` matching points
\* in id order from `offset` on, and the id the next page starts at
\* (None when this page is the last)
Scroll(S, d, limit, offset) ==
    LET ids == {pt.id : pt \in Matching(S, d)}
        from == IF offset = No THEN ids ELSE {i \in ids : i >= The(offset)}
        page == IF Cardinality(from) <= limit THEN from
                ELSE {i \in from : Cardinality({j \in from : j < i}) < limit}
        rest == from \ page
    IN  [points |-> page,
         next_offset |-> IF rest = {} THEN No ELSE Some(MinOf(rest))]

\* mutant of Delete: only the first id of the list is deleted
Delete_FirstOnly(S, ids) ==
    {pt \in S : \/ pt.id \notin ids
                \/ \E i \in ids : i < pt.id}

\* mutant of Delete: the stale points stay
Delete_Nothing(S, ids) == S

\* client.delete(PointIdsList(ids))
Delete(S, ids) == {pt \in S : pt.id \notin ids}

\* mutant of NewPoints: chunk_index counts from 1
NewPoints_IndexFromOne(first_id, issue, chunks, vectors) ==
    {Point(first_id + i, vectors[i + 1],
           Payload(issue.number, i + 1, chunks[i + 1], issue.title, issue.state,
                   issue.url, issue.labels)) :
        i \in 0..(MinOf({Len(chunks), Len(vectors)}) - 1)}

\* the points upsert_issue_chunks builds: one per pair of zip(chunks,
\* vectors), each with a fresh id
NewPoints(first_id, issue, chunks, vectors) ==
    {Point(first_id + i, vectors[i + 1],
           Payload(issue.number, i, chunks[i + 1], issue.title, issue.state,
                   issue.url, issue.labels)) :
        i \in 0..(MinOf({Len(chunks), Len(vectors)}) - 1)}

\* generate_embedding: the embedding model is a function of the text
Embed(text) == 1 + (Len(text) % MaxScore)

\* mutant of EmbedBatch: no vector comes back
EmbedBatch_Nothing(texts) == <<>>

\* mutant of EmbedBatch: the vector of the last text is missing
EmbedBatch_OneShort(texts) == [i \in 1..(Len(texts) - 1) |-> Embed(texts[i])]

\* generate_embeddings_batch: one vector per text, in order
EmbedBatch(texts) == [i \in 1..Len(texts) |-> Embed(texts[i])]

\* ensure_collection: the collection and its payload index are created
\* only when no collection of that name exists
ensure_collection(c) == IF c = "absent" THEN "indexed" ELSE c

\* ensure_collection raising: get_collections or create_collection failed
\* and nothing changed, or create_payload_index failed on the collection
\* just created
ensure_collection_raises(c) ==
    IF c = "absent" THEN {"absent", "unindexed"} ELSE {c}

\* --------------------------------------------------------------- search

OverFetch == 5
ExcerptLen == 500

\* t[:n]
Take(t, n) == SubSeq(t, 1, IF n < Len(t) THEN n ELSE Len(t))

\* cosine similarity of a stored vector to the query vector
Score(query_vector, vector) == vector

\* the points of S from the most similar on (equal scores in id order)
RECURSIVE Ranked(_)
Ranked(S) ==
    IF S = {} THEN <<>>
    ELSE LET best == CHOOSE x \in S : \A y \in S :
                        \/ x.vector > y.vector
                        \/ (x.vector = y.vector /\ x.id <= y.id)
         IN  << best >> \o Ranked(S \ {best})

\* client.query_points(query, limit).points: the `limit` nearest points,
\* each with its payload and score
QueryPoints(S, query_vector, limit) ==
    LET r == Ranked(S)
    IN  [i \in 1..(IF limit < Len(r) THEN limit ELSE Len(r)) |->
            [id |-> r[i].id, payload |-> r[i].payload,
             score |-> Score(query_vector, r[i].vector)]]

\* payload.get("issue_body_chunk") or payload.get("issue_body", "")
BodyOf(payload) ==
    IF payload.issue_body_chunk # <<>> THEN payload.issue_body_chunk
    ELSE IF "issue_body" \in DOMAIN payload THEN payload.issue_body
    ELSE <<>>

\* the SimilarIssue built from a neighbour
SimilarIssue(result) ==
    [issue_number |-> result.payload.issue_number,
     issue_title |-> result.payload.issue_title,
     issue_body |-> Take(BodyOf(result.payload), ExcerptLen),
     state |-> result.payload.state,
     url |-> result.payload.url,
     similarity |-> result.score]

\* issue_map[issue_num]["similarity"]: models.SimilarIssue is a pydantic
\* BaseModel, which defines no __getitem__, so the subscript raises
GetItem(obj, key) == [error |-> "TypeError", value |-> 0]

\* mutant of Excluded: no neighbour is skipped
Excluded_Never(exclude_issue_number, issue_num) == FALSE

\* exclude_issue_number is not None and issue_num == exclude_issue_number
Excluded(exclude_issue_number, issue_num) ==
    exclude_issue_number # No /\ issue_num = The(exclude_issue_number)

\* the position of issue_num among the keys of issue_map (0: not a key)
KeyIndex(issue_map, issue_num) ==
    LET at == {k \in 1..Len(issue_map) : issue_map[k].issue_number = issue_num}
    IN  IF at = {} THEN 0 ELSE MinOf(at)

\* the for loop over the neighbours; issue_map is a dict, that is, its
\* values in the order their keys were first inserted
RECURSIVE Aggregate(_, _, _, _)
Aggregate(points, i, exclude_issue_number, issue_map) ==
    IF i > Len(points) THEN [error |-> None, issue_map |-> issue_map]
    ELSE
      LET result == points[i]
          issue_num == result.payload.issue_number
          k == KeyIndex(issue_map, issue_num)
          old == GetItem(issue_map[k], "similarity")
      IN  IF Excluded(exclude_issue_number, issue_num)
          THEN Aggregate(points, i + 1, exclude_issue_number, issue_map)
          ELSE IF k = 0
          THEN Aggregate(points, i + 1, exclude_issue_number,
                         Append(issue_map, SimilarIssue(result)))
          ELSE IF old.error # None
          THEN [error |-> old.error, issue_map |-> issue_map]
          ELSE IF result.score > old.value
          THEN Aggregate(points, i + 1, exclude_issue_number,
                         [issue_map EXCEPT ![k] = SimilarIssue(result)])
          ELSE Aggregate(points, i + 1, exclude_issue_number, issue_map)

\* sorted(values, key=similarity, reverse=True): stable, so equal
\* similarities keep their order
RECURSIVE SortedBySimilarity(_)
SortedBySimilarity(values) ==
    IF values = <<>> THEN <<>>
    ELSE LET n == Len(values)
             rest == SortedBySimilarity(SubSeq(values, 1, n - 1))
             x == values[n]
             ahead == {j \in 1..Len(rest) : rest[j].similarity >= x.similarity}
             m == Cardinality(ahead)
         IN  SubSeq(rest, 1, m) \o << x >> \o SubSeq(rest, m + 1, Len(rest))

\* search_similar_issues after a successful query_points call: the error
\* it raises (None: it returns) and the hits it returns
search_similar_issues(S, query_vector, limit, exclude_issue_number) ==
    LET points == QueryPoints(S, query_vector, limit * OverFetch)
        agg == Aggregate(points, 1, exclude_issue_number, <<>>)
    IN  IF points = <<>> THEN [error |-> None, hits |-> <<>>]
        ELSE IF agg.error # None THEN [error |-> agg.error, hits |-> <<>>]
        ELSE [error |-> None,
              hits |-> Take(SortedBySimilarity(agg.issue_map), limit)]

\* -------------------------------------------------------------- a run

TemplateNames == {"feature_request", "bug_report"}

\* config.AppSettings, as far as the steps read it: rag.top_k, templates
\* (its keys), default_template, whether rag.similar_issue_class is an
\* attribute, whether get_api_key() finds the provider and its key
Settings(top_k, templates, default_template, similar_issue_class, api_key) ==
    [top_k |-> top_k, templates |-> templates,
     default_template |-> default_template,
     similar_issue_class |-> similar_issue_class, api_key |-> api_key]

NoSettings == Settings(0, {}, None, FALSE, FALSE)

IdleRun ==
    [graph |-> "none", node |-> "Idle", pos |-> "",
     \* the class of the state object handed to the engine
     state_type |-> "",
     \* GraphState
     issue_number |-> 0, issue_title |-> <<>>, issue_body |-> <<>>,
     is_rag_enabled |-> FALSE, dry_run |-> FALSE, settings |-> NoSettings,
     similar_issues |-> <<>>, template_name |-> None, improved_content |-> No,
     \* arguments of a direct search_similar_issues call
     limit |-> 0, exclude |-> No,
     \* SingleIssueUpdateState.issue, and the local `issue` of an index step
     issue |-> No,
     \* FetchIssueState.fetched_issue
     fetched_issue |-> No,
     \* RAGIndexState
     issues |-> <<>>, current_index |-> 0, success_count |-> 0,
     total_issues |-> 0,
     \* locals of the index step and of upsert_issue_chunks
     chunks |-> <<>>, vectors |-> <<>>, ids_to_delete |-> {}, offset |-> No,
     \* End(...) of the run, or the exception that aborted it
     output |-> No, error |-> None,
     \* the step that raised it
     at |-> "",
     \* history: the steps the engine invoked, and the template name the
     \* language model answered
     visited |-> <<>>, llm_template |-> None,
     \* the port calls of the run, in order
     calls |-> <<>>,
     \* history: the number of points the issue had when the index step
     \* began, and the index step the previous run of this worker completed
     before |-> 0, prev |-> No,
     \* history: the comment post_comment was given, the ids of the points
     \* the last upsert of the run wrote, the issue numbers whose index
     \* step completed, and the next fresh id when the run began
     posted |-> No, written |-> {}, done |-> <<>>, first_id |-> 0,
     \* history: the issue numbers the collection held points of when the
     \* query_points call of a direct search was answered, and whether the
     \* run began while another index operation was under way
     seen |-> No, concurrent |-> FALSE]

Running(p) == run[p].node \notin {"Idle", "End", "Abort"}

Called(p, c) == Append(run[p].calls, c)

\* mutant of Raise: the error is noted and the step stays current, to be
\* invoked again
Raise_Retry(r, err, calls) ==
    [r EXCEPT !.error = err, !.calls = calls, !.at = r.node]

\* mutant of Raise: a failure inside the bulk loop skips the document
Raise_SkipDocument(r, err, calls) ==
    IF r.node = "RAGIndexProcessNode"
    THEN [r EXCEPT !.current_index = @ + 1, !.pos = "start", !.calls = calls,
                   !.visited = Append(@, "RAGIndexProcessNode")]
    ELSE [r EXCEPT !.node = "Abort", !.error = err, !.calls = calls,
                   !.at = r.node]

\* the step raises: the run aborts, the engine does not catch
Raise(r, err, calls) ==
    [r EXCEPT !.node = "Abort", !.error = err, !.calls = calls, !.at = r.node]

\* the step returns its successor and the engine invokes it
Goto(r, node) == [r EXCEPT !.node = node, !.visited = Append(@, node)]

IndexNodes == {"SingleIssueUpdateNode", "IndexCurrentIssueNode",
               "RAGIndexProcessNode"}

\* the local `issue` of an index step: the state's issue, the IssueData
\* IndexCurrentIssueNode builds from the GraphState, or the issue under the
\* cursor of the bulk run
IssueOf(r) ==
    IF r.node = "IndexCurrentIssueNode"
    THEN IssueData(r.issue_number, r.issue_title, r.issue_body, "open")
    ELSE IF r.node = "RAGIndexProcessNode" THEN r.issues[r.current_index + 1]
    ELSE The(r.issue)

\* the state attribute an index step reads first is there:
\* SingleIssueUpdateNode reads ctx.state.issue
HasIssue(r) ==
    r.node = "SingleIssueUpdateNode" => r.state_type = "SingleIssueUpdateState"

\* mutant of EnsuresFirst: no index step ensures the collection
EnsuresFirst_Never(r) == FALSE

\* the index step calls ensure_collection itself; the bulk run did so in
\* RAGIndexInitNode
EnsuresFirst(r) == r.node # "RAGIndexProcessNode"

\* mutant of Exhausted: the cursor stops one document early
Exhausted_OneEarly(r) == r.current_index + 1 >= r.total_issues

\* ctx.state.current_index >= ctx.state.total_issues
Exhausted(r) == r.current_index >= r.total_issues

\* mutant of Advance: the cursor moves on, the count of successes does not
Advance_CursorOnly(r) == [r EXCEPT !.current_index = @ + 1]

\* current_index += 1; success_count += 1
Advance(r) ==
    [r EXCEPT !.current_index = @ + 1, !.success_count = @ + 1]

\* what the previous run leaves for the next one to compare with
PrevOf(r) ==
    IF r.node = "End" /\ r.output # No
       /\ "chunks_indexed" \in DOMAIN The(r.output)
    THEN Some([issue |-> The(r.issue),
               count |-> Cardinality(Matching(store, The(r.issue).number))])
    ELSE No

\* a run of the update graph on the state
\* create_single_issue_update_state(issue, ...) builds, begun at
\* SingleIssueUpdateNode
StartUpdate(p) ==
    /\ p \in workers
    /\ ~ Running(p)
    /\ runs < MaxRuns
    /\ \E issue \in IssueVersions :
         run' = [run EXCEPT ![p] =
                    [IdleRun EXCEPT !.graph = "update",
                                    !.state_type = "SingleIssueUpdateState",
                                    !.first_id = nextId,
                                    !.node = "SingleIssueUpdateNode",
                                    !.pos = "start",
                                    !.visited = <<"SingleIssueUpdateNode">>,
                                    !.issue = Some(issue),
                                    !.prev = PrevOf(run[p])]]
    /\ runs' = runs + 1
    /\ UNCHANGED <<collection, store, nextId, workers>>

\* the head of an index step (SingleIssueUpdateNode.run lines 527-534,
\* IndexCurrentIssueNode.run lines 370-387):
\* ensure_collection, create_issue_chunks, generate_embeddings_batch
IndexBegin(p) ==
    /\ p \in workers
    /\ run[p].node \in IndexNodes
    /\ run[p].pos = "start"
    /\ run[p].node = "RAGIndexProcessNode" => ~ Exhausted(run[p])
    /\ IF ~ HasIssue(run[p])
       THEN /\ run' = [run EXCEPT ![p] = Raise(@, "AttributeError", @.calls)]
            /\ UNCHANGED collection
       ELSE LET issue == IssueOf(run[p])
                chunks == Chunks(issue.title, issue.body)
                ensures == EnsuresFirst(run[p])
                c1 == IF ensures THEN Called(p, "ensure_collection")
                      ELSE run[p].calls
                c2 == Append(c1, "embed_batch")
                ensured == IF ensures THEN ensure_collection(collection)
                           ELSE collection
                r == [run[p] EXCEPT
                         !.issue = Some(issue),
                         !.before = Cardinality(Matching(store, issue.number))]
            IN  \/ /\ ensures
                   /\ run' = [run EXCEPT ![p] =
                                 Raise(r, "ExternalServiceError", c1)]
                   /\ collection' \in ensure_collection_raises(collection)
                \/ /\ run' = [run EXCEPT ![p] =
                                 Raise(r, "ExternalServiceError", c2)]
                   /\ collection' = ensured
                \/ /\ run' = [run EXCEPT ![p] =
                                 [r EXCEPT !.pos = "scroll",
                                           !.chunks = chunks,
                                           !.vectors = EmbedBatch(chunks),
                                           !.ids_to_delete = {},
                                           !.offset = No,
                                           !.calls = c2]]
                   /\ collection' = ensured
    /\ UNCHANGED <<store, nextId, workers, runs>>

\* one turn of the while loop of upsert_issue_chunks: a scroll call
ScrollPage(p) ==
    /\ p \in workers
    /\ run[p].node \in IndexNodes
    /\ run[p].pos = "scroll"
    /\ LET c == Called(p, "scroll")
           got == Scroll(store, The(run[p].issue).number, ScrollLimit,
                         run[p].offset)
           ids == run[p].ids_to_delete \cup got.points
           more == got.points # {} /\ got.next_offset # No
       IN  \/ run' = [run EXCEPT ![p] = Raise(@, "ExternalServiceError", c)]
           \/ run' = [run EXCEPT
                        ![p].calls = c,
                        ![p].ids_to_delete = ids,
                        ![p].offset = IF more THEN got.next_offset ELSE @,
                        ![p].pos = IF more THEN "scroll"
                                   ELSE IF ids # {} THEN "delete" ELSE "insert"]
    /\ UNCHANGED <<collection, store, nextId, workers, runs>>

\* mutant of AfterDelete: a bulk run turns to the next document once the
\* stale points are gone, leaving the insert undone
AfterDelete_NextDocument(r, calls) ==
    IF r.node = "RAGIndexProcessNode"
    THEN Goto([r EXCEPT !.calls = calls, !.pos = "start",
                        !.current_index = @ + 1], "RAGIndexProcessNode")
    ELSE [r EXCEPT !.calls = calls, !.pos = "insert"]

\* upsert_issue_chunks once client.delete is back: the points are built
\* and upserted next
AfterDelete(r, calls) == [r EXCEPT !.calls = calls, !.pos = "insert"]

\* client.delete of the collected ids
DeleteOld(p) ==
    /\ p \in workers
    /\ run[p].node \in IndexNodes
    /\ run[p].pos = "delete"
    /\ LET c == Called(p, "delete")
       IN  \/ /\ run' = [run EXCEPT ![p] = Raise(@, "ExternalServiceError", c)]
              /\ UNCHANGED store
           \/ /\ run' = [run EXCEPT ![p] = AfterDelete(@, c)]
              /\ store' = Delete(store, run[p].ids_to_delete)
    /\ UNCHANGED <<collection, nextId, workers, runs>>

\* what the index step returns once upsert_issue_chunks is back
IndexEnd(r) ==
    IF r.node = "IndexCurrentIssueNode"
    THEN [status |-> "indexed", issue_number |-> r.issue_number,
          chunks_indexed |-> Len(r.chunks)]
    ELSE [issue_number |-> The(r.issue).number,
          chunks_indexed |-> Len(r.chunks)]

\* the tail of an index step, once upsert_issue_chunks is back: the end
\* of the run, or the next turn of the bulk loop
Indexed_(r) ==
    LET d == [r EXCEPT !.done = Append(@, The(r.issue).number)]
    IN  IF r.node = "RAGIndexProcessNode"
        THEN Goto([Advance(d) EXCEPT !.pos = "start"], "RAGIndexProcessNode")
        ELSE [d EXCEPT !.node = "End", !.pos = "", !.output = Some(IndexEnd(r))]

\* client.upsert of the new points, and the tail of the index step
InsertNew(p) ==
    /\ p \in workers
    /\ run[p].node \in IndexNodes
    /\ run[p].pos = "insert"
    /\ LET c == Called(p, "upsert")
           new == NewPoints(nextId, The(run[p].issue), run[p].chunks,
                            run[p].vectors)
       IN  \/ /\ run' = [run EXCEPT ![p] = Raise(@, "ExternalServiceError", c)]
              /\ UNCHANGED <<store, nextId>>
           \/ /\ run' = [run EXCEPT ![p] =
                            Indexed_([@ EXCEPT !.calls = c,
                                               !.written = {pt.id : pt \in new}])]
              /\ store' = store \cup new
              /\ nextId' = nextId + Cardinality(new)
    /\ UNCHANGED <<collection, workers, runs>>

\* ------------------------------------------------- the index operations

\* the points an earlier index of issue d with n chunks left
OldPoints(first_id, d, n) ==
    {Point(first_id + i, 1,
           Payload(d, i, <<"o", "l", "d">>, <<"o">>, "open", <<"url", d>>, <<>>)) :
        i \in 0..(n - 1)}

\* numbers of points issue 1 has at the start: none, a full scroll page,
\* one more than a page, more than two pages
PriorCounts == {0, ScrollLimit, ScrollLimit + 1, 2 * ScrollLimit + 1}

InitIndex ==
    /\ \E n \in PriorCounts, m \in {0, 1} :
         /\ store = OldPoints(1, 1, n) \cup OldPoints(n + 1, MaxIssue, m)
         /\ nextId = n + m + 1
    /\ collection = IF store = {} THEN "absent" ELSE "indexed"
    /\ workers = {"w1"}
    /\ run = [p \in Workers |-> IdleRun]
    /\ runs = 0

NextIndex ==
    \E p \in Workers :
        \/ StartUpdate(p)
        \/ IndexBegin(p)
        \/ ScrollPage(p)
        \/ DeleteOld(p)
        \/ InsertNew(p)

SpecIndex == InitIndex /\ [][NextIndex]_vars

\* ---------------------------------------------------- the search steps

\* QdrantSearchClient.search_similar_issues called with the arguments of
\* run[p]: the query_points call, then the aggregation
SearchCall(p) ==
    /\ p \in workers
    /\ run[p].node = "search_similar_issues"
    /\ LET c == Called(p, "query_points")
           res == search_similar_issues(store, Embed(<<"q">>), run[p].limit,
                                        run[p].exclude)
       IN  \/ run' = [run EXCEPT ![p] = Raise(@, "ExternalServiceError", c)]
           \/ /\ collection # "absent"
              /\ run' = [run EXCEPT ![p] =
                           LET r == [@ EXCEPT !.seen =
                                       Some({pt.payload.issue_number : pt \in store})]
                           IN  IF res.error # None THEN Raise(r, res.error, c)
                               ELSE [r EXCEPT !.node = "End", !.calls = c,
                                              !.output = Some([similar_issues |-> res.hits])]]
    /\ UNCHANGED <<collection, store, nextId, workers, runs>>

\* mutant of ExcludeOf: the search is asked to exclude nothing
ExcludeOf_Nothing(r) == No

\* exclude_issue_number=ctx.state.issue_number
ExcludeOf(r) == Some(r.issue_number)

\* query_text = f"{issue_title}\n{issue_body}"
QueryText(r) == r.issue_title \o <<NL>> \o r.issue_body

\* RAGSearchNode.run
RAGSearchNode(p) ==
    /\ p \in workers
    /\ run[p].node = "RAGSearchNode"
    /\ LET r == run[p]
           c1 == Called(p, "ensure_collection")
           c2 == Append(c1, "embed")
           c3 == Append(c2, "query_points")
           res == search_similar_issues(store, Embed(QueryText(r)),
                                        r.settings.top_k, ExcludeOf(r))
       IN  IF ~ r.settings.similar_issue_class
           THEN /\ run' = [run EXCEPT ![p] = Raise(r, "AttributeError", r.calls)]
                /\ UNCHANGED collection
           ELSE \/ /\ run' = [run EXCEPT ![p] = Raise(r, "ExternalServiceError", c1)]
                   /\ collection' \in ensure_collection_raises(collection)
                \/ /\ run' = [run EXCEPT ![p] = Raise(r, "ExternalServiceError", c2)]
                   /\ collection' = ensure_collection(collection)
                \/ /\ run' = [run EXCEPT ![p] = Raise(r, "ExternalServiceError", c3)]
                   /\ collection' = ensure_collection(collection)
                \/ /\ run' = [run EXCEPT ![p] =
                                IF res.error # None THEN Raise(r, res.error, c3)
                                ELSE Goto([r EXCEPT !.similar_issues = res.hits,
                                                    !.calls = c3],
                                          "TemplateDetectionNode")]
                   /\ collection' = ensure_collection(collection)
    /\ UNCHANGED <<store, nextId, workers, runs>>

\* ------------------------------------------------ the search operations

\* neighbour lists: up to MaxPoints pairs of issue number and score, the
\* most similar first
Corpora ==
    UNION {{c \in [1..n -> Issues \X Scores] :
              \A i \in 1..(n - 1) : c[i][2] >= c[i + 1][2]} : n \in 0..MaxPoints}

\* the store whose points rank as corpus c: point i is the next chunk of
\* its issue
StoreOf(c) ==
    {Point(i, c[i][2],
           Payload(c[i][1], Cardinality({j \in 1..(i - 1) : c[j][1] = c[i][1]}),
                   Rep(<<"c">>, i), <<"o">>, "open", <<"url", c[i][1]>>, <<>>)) :
        i \in 1..Len(c)}

ValidBody == Rep(<<"x">>, 10)

\* a direct call of search_similar_issues, about to be made
PendingSearch ==
    {[IdleRun EXCEPT !.graph = "call", !.node = "search_similar_issues",
                     !.limit = k, !.exclude = x] :
        k \in 1..MaxTopK, x \in {No} \cup {Some(d) : d \in Issues}}

\* an issue-improvement run that has reached RAGSearchNode
AtRAGSearch ==
    {[IdleRun EXCEPT !.graph = "improve", !.node = "RAGSearchNode",
                     !.state_type = "GraphState",
                     !.issue_number = d, !.issue_title = Title,
                     !.issue_body = ValidBody, !.is_rag_enabled = TRUE,
                     !.visited = <<"InputValidationNode", "RAGSearchNode">>,
                     !.settings = Settings(k, TemplateNames, "feature_request",
                                           sic, TRUE)] :
        d \in Issues, k \in 1..MaxTopK, sic \in BOOLEAN}

InitSearch ==
    /\ \E c \in Corpora :
         /\ store = StoreOf(c)
         /\ nextId = Len(c) + 1
    /\ collection \in (IF store = {} THEN {"absent", "indexed"} ELSE {"indexed"})
    /\ workers = {"w1"}
    /\ \E r \in PendingSearch \cup AtRAGSearch :
         run = [p \in Workers |-> IF p = "w1" THEN r ELSE IdleRun]
    /\ runs = 1

NextSearch ==
    \E p \in Workers :
        \/ SearchCall(p)
        \/ RAGSearchNode(p)

SpecSearch == InitSearch /\ [][NextSearch]_vars

\* ------------------------------------------- the issue-improvement steps

MinLength == 10

\* combined.replace(" ", "").replace("\n", "").replace("\t", "")
TextWithoutSpaces(combined) ==
    SelectSeq(combined, LAMBDA ch : ch \notin {SP, NL, TAB})

\* mutant of InputValidation: the collection is ensured before the length
\* is looked at
InputValidation_EnsureFirst(r) ==
    IF Len(TextWithoutSpaces(r.issue_title \o r.issue_body)) < MinLength
    THEN Raise(r, "ValueError", Append(r.calls, "ensure_collection"))
    ELSE IF r.is_rag_enabled THEN Goto(r, "RAGSearchNode")
    ELSE Goto(r, "TemplateDetectionNode")

\* mutant of InputValidation: the search step follows whatever the RAG
\* flag says
InputValidation_AlwaysSearch(r) ==
    IF Len(TextWithoutSpaces(r.issue_title \o r.issue_body)) < MinLength
    THEN Raise(r, "ValueError", r.calls)
    ELSE Goto(r, "RAGSearchNode")

\* InputValidationNode.run, on the state of the run
InputValidation(r) ==
    IF Len(TextWithoutSpaces(r.issue_title \o r.issue_body)) < MinLength
    THEN Raise(r, "ValueError", r.calls)
    ELSE IF r.is_rag_enabled THEN Goto(r, "RAGSearchNode")
    ELSE Goto(r, "TemplateDetectionNode")

InputValidationNode(p) ==
    /\ p \in workers
    /\ run[p].node = "InputValidationNode"
    /\ run' = [run EXCEPT ![p] = InputValidation(run[p])]
    /\ UNCHANGED <<collection, store, nextId, workers, runs>>

\* AppSettings.validate_template
validate_template(settings, template_name) == template_name \in settings.templates

\* what the language model can answer: a configured name or another one
Answers == TemplateNames \cup {"question"}

\* TemplateDetectionNode.run: LLMFactory.create_model asks for the API
\* key, the agent runs, the answer is validated
TemplateDetectionNode(p) ==
    /\ p \in workers
    /\ run[p].node = "TemplateDetectionNode"
    /\ LET r == run[p]
           c == Called(p, "agent_run")
       IN  IF ~ r.settings.api_key
           THEN run' = [run EXCEPT ![p] = Raise(r, "ValueError", r.calls)]
           ELSE \/ run' = [run EXCEPT ![p] = Raise(r, "ExternalServiceError", c)]
                \/ \E answer \in Answers :
                     LET template_name ==
                             IF validate_template(r.settings, answer) THEN answer
                             ELSE r.settings.default_template
                     IN  run' = [run EXCEPT ![p] =
                                    Goto([r EXCEPT !.template_name = template_name,
                                                   !.llm_template = answer,
                                                   !.calls = c],
                                         "ContentGenerationNode")]
    /\ UNCHANGED <<collection, store, nextId, workers, runs>>

\* ContentGenerationNode.run: the template is looked up and its file
\* read, the agent is created and runs
ContentGenerationNode(p) ==
    /\ p \in workers
    /\ run[p].node = "ContentGenerationNode"
    /\ LET r0 == run[p]
           r == IF r0.template_name = None
                THEN [r0 EXCEPT !.template_name = r0.settings.default_template]
                ELSE r0
           c == Called(p, "agent_run")
       IN  IF r.template_name \notin r.settings.templates
           THEN run' = [run EXCEPT ![p] = Raise(r, "KeyError", r.calls)]
           ELSE \/ run' = [run EXCEPT ![p] = Raise(r, "FileNotFoundError", r.calls)]
                \/ IF ~ r.settings.api_key
                   THEN run' = [run EXCEPT ![p] = Raise(r, "ValueError", r.calls)]
                   ELSE \/ run' = [run EXCEPT ![p] =
                                      Raise(r, "ExternalServiceError", c)]
                        \/ run' = [run EXCEPT ![p] =
                                      Goto([r EXCEPT
                                              !.improved_content = Some(<<"content">>),
                                              !.calls = c],
                                           "CommentFormattingNode")]
    /\ UNCHANGED <<collection, store, nextId, workers, runs>>

\* the comment CommentFormattingNode composes, part by part
Comment(r) ==
    LET template_name == IF r.template_name # None THEN r.template_name
                         ELSE r.settings.default_template
        refs == [i \in 1..Len(r.similar_issues) |-> r.similar_issues[i].issue_number]
    IN  <<"header", template_name>> \o The(r.improved_content)
        \o (IF r.similar_issues # <<>> THEN <<"references">> \o refs ELSE <<>>)
        \o <<"usage", "marker">>

\* mutant of Formatted: the search results are dropped once they are in
\* the comment
Formatted_DropsSimilar(r) ==
    [r EXCEPT !.improved_content = Some(Comment(r)), !.similar_issues = <<>>]

\* ctx.state.improved_content = comment
Formatted(r) == [r EXCEPT !.improved_content = Some(Comment(r))]

\* CommentFormattingNode.run
CommentFormattingNode(p) ==
    /\ p \in workers
    /\ run[p].node = "CommentFormattingNode"
    /\ run' = [run EXCEPT ![p] = Goto(Formatted(@), "PostCommentNode")]
    /\ UNCHANGED <<collection, store, nextId, workers, runs>>

\* the End(...) of PostCommentNode
PostOutput(r, status) ==
    Some([status |-> status, issue_number |-> r.issue_number,
          comment_length |-> Len(The(r.improved_content))])

\* mutant of SkipsPost: the dry-run flag is not looked at
SkipsPost_Never(r) == FALSE

\* if ctx.state.dry_run: the post is skipped
SkipsPost(r) == r.dry_run

\* mutant of AfterPost: the run ends after the post, RAG enabled or not
AfterPost_NeverIndex(r) ==
    [r EXCEPT !.node = "End", !.output = PostOutput(r, "comment_posted")]

\* PostCommentNode.run once post_comment is back: on to the index step
\* when RAG is enabled, the end of the run otherwise
AfterPost(r) ==
    IF r.is_rag_enabled
    THEN Goto([r EXCEPT !.pos = "start"], "IndexCurrentIssueNode")
    ELSE [r EXCEPT !.node = "End", !.output = PostOutput(r, "comment_posted")]

\* PostCommentNode.run
PostCommentNode(p) ==
    /\ p \in workers
    /\ run[p].node = "PostCommentNode"
    /\ LET r == run[p]
           comment == The(r.improved_content)
           c == Called(p, "post_comment")
       IN  IF SkipsPost(r)
           THEN run' = [run EXCEPT ![p] =
                           [r EXCEPT !.node = "End",
                                     !.output = PostOutput(r, "dry_run")]]
           ELSE \/ run' = [run EXCEPT ![p] = Raise(r, "ExternalServiceError", c)]
                \/ run' = [run EXCEPT ![p] =
                              AfterPost([r EXCEPT !.calls = c,
                                                  !.posted = Some(comment)])]
    /\ UNCHANGED <<collection, store, nextId, workers, runs>>

\* --------------------------------------- the issue-improvement operations

\* settings files: the default template is one of the templates or not,
\* rag.similar_issue_class is there or not, the API key is set or not
SettingsFiles ==
    {Settings(MaxTopK, TemplateNames, d, sic, key) :
        d \in {"feature_request", "custom"}, sic \in BOOLEAN, key \in BOOLEAN}

\* the GraphState run_normal_mode builds, about to enter InputValidationNode
NewGraphStates ==
    {[IdleRun EXCEPT !.graph = "improve", !.node = "InputValidationNode",
                     !.state_type = "GraphState",
                     !.visited = <<"InputValidationNode">>,
                     !.issue_number = d, !.issue_title = t[1],
                     !.issue_body = t[2], !.is_rag_enabled = rag,
                     !.dry_run = dry, !.settings = st] :
        d \in Issues, t \in Texts, rag \in BOOLEAN, dry \in BOOLEAN,
        st \in SettingsFiles}

\* the stores a run meets: empty, a chunk of issue 1, chunks of both
\* issues, two chunks of the last issue and one of issue 1
StartCorpora ==
    {<<>>, <<<<1, 2>>>>, <<<<MaxIssue, 3>>, <<1, 2>>>>,
     <<<<MaxIssue, 2>>, <<MaxIssue, 1>>, <<1, 1>>>>}

InitImprove ==
    /\ \E c \in StartCorpora :
         /\ store = StoreOf(c)
         /\ nextId = Len(c) + 1
    /\ collection = IF store = {} THEN "absent" ELSE "indexed"
    /\ workers = {"w1"}
    /\ \E r \in NewGraphStates :
         run = [p \in Workers |-> IF p = "w1" THEN [r EXCEPT !.first_id = nextId]
                                  ELSE IdleRun]
    /\ runs = 1

NextImprove ==
    \E p \in Workers :
        \/ InputValidationNode(p)
        \/ RAGSearchNode(p)
        \/ TemplateDetectionNode(p)
        \/ ContentGenerationNode(p)
        \/ CommentFormattingNode(p)
        \/ PostCommentNode(p)
        \/ IndexBegin(p)
        \/ ScrollPage(p)
        \/ DeleteOld(p)
        \/ InsertNew(p)

SpecImprove == InitImprove /\ [][NextImprove]_vars

\* the engine goes on invoking the current step until the run is over
SpecImproveLive == SpecImprove /\ WF_vars(NextImprove)

\* -------------------------------------------------- the bulk index steps

\* mutant of RAGIndexInitNode: the step hands over to the processing
\* step without ensuring the collection
RAGIndexInitNode_NoEnsure(p) ==
    /\ p \in workers
    /\ run[p].node = "RAGIndexInitNode"
    /\ LET r == run[p]
       IN  IF r.state_type # "RAGIndexState"
           THEN run' = [run EXCEPT ![p] = Raise(r, "AttributeError", r.calls)]
           ELSE run' = [run EXCEPT ![p] =
                           Goto([r EXCEPT !.pos = "start"], "RAGIndexProcessNode")]
    /\ UNCHANGED <<collection, store, nextId, workers, runs>>

\* RAGIndexInitNode.run: it reads ctx.state.total_issues, then ensures the
\* collection
RAGIndexInitNode(p) ==
    /\ p \in workers
    /\ run[p].node = "RAGIndexInitNode"
    /\ LET r == run[p]
           c == Called(p, "ensure_collection")
       IN  IF r.state_type # "RAGIndexState"
           THEN /\ run' = [run EXCEPT ![p] = Raise(r, "AttributeError", r.calls)]
                /\ UNCHANGED collection
           ELSE \/ /\ run' = [run EXCEPT ![p] =
                                 Raise(r, "ExternalServiceError", c)]
                   /\ collection' \in ensure_collection_raises(collection)
                \/ /\ run' = [run EXCEPT ![p] =
                                 Goto([r EXCEPT !.calls = c, !.pos = "start"],
                                      "RAGIndexProcessNode")]
                   /\ collection' = ensure_collection(collection)
    /\ UNCHANGED <<store, nextId, workers, runs>>

\* RAGIndexProcessNode.run when the cursor has left the list (lines
\* 457-458); with the cursor inside the list it is an index step
RAGIndexProcessNode(p) ==
    /\ p \in workers
    /\ run[p].node = "RAGIndexProcessNode"
    /\ run[p].pos = "start"
    /\ Exhausted(run[p])
    /\ run' = [run EXCEPT ![p] = Goto([@ EXCEPT !.pos = ""],
                                      "RAGIndexCompleteNode")]
    /\ UNCHANGED <<collection, store, nextId, workers, runs>>

\* RAGIndexCompleteNode.run
RAGIndexCompleteNode(p) ==
    /\ p \in workers
    /\ run[p].node = "RAGIndexCompleteNode"
    /\ LET r == run[p]
       IN  run' = [run EXCEPT ![p] =
                     [r EXCEPT !.node = "End",
                               !.output = Some([success |-> r.success_count,
                                                total |-> r.total_issues])]]
    /\ UNCHANGED <<collection, store, nextId, workers, runs>>

\* ----------------------------------------------- the bulk index operations

MaxDocs == 3

\* the issue lists a bulk run is given: up to MaxDocs issues with different
\* numbers, in any order
IssueLists ==
    LET versions == {IssueData(n, Title, b, "open") : n \in 1..MaxDocs,
                                                     b \in Bodies}
    IN  UNION {{l \in [1..k -> versions] :
                  \A i, j \in 1..k : i # j => l[i].number # l[j].number} :
               k \in 0..MaxDocs}

\* RAGIndexState as create_rag_index_state builds it, __post_init__ done
RAGIndexState(issues) ==
    [IdleRun EXCEPT !.graph = "index", !.state_type = "RAGIndexState",
                    !.node = "RAGIndexInitNode",
                    !.visited = <<"RAGIndexInitNode">>,
                    !.issues = issues, !.current_index = 0,
                    !.success_count = 0, !.total_issues = Len(issues)]

\* the state index_all_issues hands to the engine: a FetchAllIssuesState,
\* with RAGIndexInitNode as the entry step
index_all_issues ==
    [IdleRun EXCEPT !.graph = "index", !.state_type = "FetchAllIssuesState",
                    !.node = "RAGIndexInitNode",
                    !.visited = <<"RAGIndexInitNode">>]

InitBulk ==
    /\ \/ /\ store = {}
          /\ collection = "absent"
          /\ nextId = 1
       \/ /\ store = OldPoints(1, 1, 2) \cup OldPoints(3, 2, 1)
          /\ collection = "indexed"
          /\ nextId = 4
    /\ workers = {"w1"}
    /\ \E r \in {RAGIndexState(l) : l \in IssueLists} \cup {index_all_issues} :
         run = [p \in Workers |-> IF p = "w1" THEN [r EXCEPT !.first_id = nextId]
                                  ELSE IdleRun]
    /\ runs = 1

NextBulk ==
    \E p \in Workers :
        \/ RAGIndexInitNode(p)
        \/ RAGIndexProcessNode(p)
        \/ RAGIndexCompleteNode(p)
        \/ IndexBegin(p)
        \/ ScrollPage(p)
        \/ DeleteOld(p)
        \/ InsertNew(p)

SpecBulk == InitBulk /\ [][NextBulk]_vars

\* the engine goes on invoking the current step until the run is over
SpecBulkLive == SpecBulk /\ WF_vars(NextBulk)

\* -------------------------------------------- the single-issue update graph

\* FetchIssueNode.run: fetch_issue gives nothing when no repository is
\* configured, raises when gh fails, and gives the issue otherwise; the
\* step ends the run either way
FetchIssueNode(p) ==
    /\ p \in workers
    /\ run[p].node = "FetchIssueNode"
    /\ LET r == run[p]
           c == Called(p, "fetch_issue")
       IN  \/ run' = [run EXCEPT ![p] = Raise(r, "ExternalServiceError", c)]
           \/ run' = [run EXCEPT ![p] =
                         [r EXCEPT !.node = "End", !.calls = c,
                                   !.output =
                                       Some([status |-> "error",
                                             issue_number |-> r.issue_number])]]
           \/ \E issue \in IssueVersions :
                /\ issue.number = r.issue_number
                /\ run' = [run EXCEPT ![p] =
                              [r EXCEPT !.node = "End", !.calls = c,
                                        !.fetched_issue = Some(issue),
                                        !.output =
                                            Some([status |-> "success",
                                                  issue_number |-> issue.number,
                                                  title |-> issue.title])]]
    /\ UNCHANGED <<collection, store, nextId, workers, runs>>

\* FetchIssueState(issue_number, env_config), handed to the engine with
\* `node` as the entry step
FetchIssueState(issue_number, node) ==
    [IdleRun EXCEPT !.graph = "update", !.state_type = "FetchIssueState",
                    !.issue_number = issue_number,
                    !.node = node, !.pos = "start", !.visited = <<node>>]

\* the run update_single_issue starts: a FetchIssueState, with
\* SingleIssueUpdateNode as the entry step
update_single_issue(issue_number) ==
    FetchIssueState(issue_number, "SingleIssueUpdateNode")

\* SingleIssueUpdateState as create_single_issue_update_state builds it
SingleIssueUpdateState(issue) ==
    [IdleRun EXCEPT !.graph = "update", !.state_type = "SingleIssueUpdateState",
                    !.node = "SingleIssueUpdateNode", !.pos = "start",
                    !.visited = <<"SingleIssueUpdateNode">>,
                    !.issue = Some(issue)]

\* the runs of the update graph: from either step of the graph on a
\* FetchIssueState, or from SingleIssueUpdateNode on its own state
UpdateRuns ==
    {FetchIssueState(n, "FetchIssueNode") : n \in Issues}
        \cup {update_single_issue(n) : n \in Issues}
        \cup {SingleIssueUpdateState(issue) : issue \in IssueVersions}

InitUpdate ==
    /\ \E n \in 0..MaxPoints, m \in {0, 1} :
         /\ store = OldPoints(1, 1, n) \cup OldPoints(n + 1, MaxIssue, m)
         /\ nextId = n + m + 1
    /\ collection = IF store = {} THEN "absent" ELSE "indexed"
    /\ workers = {"w1"}
    /\ \E r \in UpdateRuns :
         run = [p \in Workers |-> IF p = "w1" THEN [r EXCEPT !.first_id = nextId]
                                  ELSE IdleRun]
    /\ runs = 1

NextUpdate ==
    \E p \in Workers :
        \/ FetchIssueNode(p)
        \/ IndexBegin(p)
        \/ ScrollPage(p)
        \/ DeleteOld(p)
        \/ InsertNew(p)

SpecUpdate == InitUpdate /\ [][NextUpdate]_vars

\* ------------------------------------------------------ the three graphs

\* one run of one of the three graphs
InitGraphs == InitImprove \/ InitBulk \/ InitUpdate

\* the engine invokes the current step of the run, whichever graph it
\* belongs to
NextGraphs ==
    \E p \in Workers :
        \/ InputValidationNode(p)
        \/ RAGSearchNode(p)
        \/ TemplateDetectionNode(p)
        \/ ContentGenerationNode(p)
        \/ CommentFormattingNode(p)
        \/ PostCommentNode(p)
        \/ RAGIndexInitNode(p)
        \/ RAGIndexProcessNode(p)
        \/ RAGIndexCompleteNode(p)
        \/ FetchIssueNode(p)
        \/ IndexBegin(p)
        \/ ScrollPage(p)
        \/ DeleteOld(p)
        \/ InsertNew(p)

SpecGraphs == InitGraphs /\ [][NextGraphs]_vars

\* ------------------------------------------------- the chunker, called

\* text lengths are taken within MaxExtra of 0 and of chunk_size
MaxExtra == 2

\* the text of n characters that repeats `unit`
TextOf(unit, n) == [i \in 1..n |-> unit[((i - 1) % Len(unit)) + 1]]

\* what texts are made of: letters only, words and blanks, short lines,
\* sentences, blanks only
Units == {<<"a">>, Word, <<"a", "b", NL>>, <<"a", "b", MARU>>, <<SP>>}

\* lengths of the full text: next to nothing, around chunk_size, and a
\* text of more than two chunks
FullLengths ==
    (2..(2 + MaxExtra)) \cup ((ChunkSize - MaxExtra)..(ChunkSize + MaxExtra))
        \cup {2 * ChunkSize + ChunkOverlap}

\* the (title, body) pairs create_issue_chunks is called with
ChunkInputs ==
    {<<t, TextOf(u, n - 2 - Len(t))>> :
        t \in {<<>>, Title}, u \in Units, n \in {m \in FullLengths : m >= 3}}
    \cup {<<t, <<>>>> : t \in {<<>>, Title}}

\* create_issue_chunks(issue_title, issue_body) is called and returns
ChunkCall(p) ==
    /\ p \in workers
    /\ run[p].node = "create_issue_chunks"
    /\ LET r == run[p]
           chunks == create_issue_chunks(r.issue_title, r.issue_body)
       IN  run' = [run EXCEPT ![p] =
                      [r EXCEPT !.node = "End", !.chunks = chunks,
                                !.output = Some(chunks)]]
    /\ UNCHANGED <<collection, store, nextId, workers, runs>>

InitChunk ==
    /\ store = {}
    /\ collection = "absent"
    /\ nextId = 1
    /\ workers = {"w1"}
    /\ \E in \in ChunkInputs :
         run = [p \in Workers |->
                  IF p = "w1"
                  THEN [IdleRun EXCEPT !.graph = "chunk",
                                       !.node = "create_issue_chunks",
                                       !.issue_title = in[1],
                                       !.issue_body = in[2]]
                  ELSE IdleRun]
    /\ runs = 1

NextChunk == \E p \in Workers : ChunkCall(p)

SpecChunk == InitChunk /\ [][NextChunk]_vars

\* ------------------------------------- searches over many-chunk documents

\* neighbour lists in which one issue has up to limit * 5 + 1 chunks, all
\* nearer to the query than the chunks of another issue
SkewedCorpora ==
    {[i \in 1..(n + m) |-> IF i <= n THEN <<de[1], MaxScore>> ELSE <<de[2], 1>>] :
        n \in 0..(OverFetch * MaxTopK + 1), m \in 0..1,
        de \in {x \in Issues \X Issues : x[1] # x[2]}}

InitSkewed ==
    /\ \E c \in SkewedCorpora :
         /\ store = StoreOf(c)
         /\ nextId = Len(c) + 1
    /\ collection \in (IF store = {} THEN {"absent", "indexed"} ELSE {"indexed"})
    /\ workers = {"w1"}
    /\ \E r \in PendingSearch \cup AtRAGSearch :
         run = [p \in Workers |-> IF p = "w1" THEN r ELSE IdleRun]
    /\ runs = 1

NextSkewed ==
    \E p \in Workers :
        \/ SearchCall(p)
        \/ RAGSearchNode(p)

SpecSkewed == InitSkewed /\ [][NextSkewed]_vars

\* --------------------------------------------- ensure_collection, called

\* a direct call of ensure_collection is about to be made
StartEnsure(p) ==
    /\ p \in workers
    /\ ~ Running(p)
    /\ runs < MaxRuns
    /\ run' = [run EXCEPT ![p] =
                  [IdleRun EXCEPT !.graph = "ensure",
                                  !.node = "ensure_collection"]]
    /\ runs' = runs + 1
    /\ UNCHANGED <<collection, store, nextId, workers>>

\* ensure_collection() raises or returns
EnsureCall(p) ==
    /\ p \in workers
    /\ run[p].node = "ensure_collection"
    /\ LET c == Called(p, "ensure_collection")
       IN  \/ /\ run' = [run EXCEPT ![p] = Raise(@, "ExternalServiceError", c)]
              /\ collection' \in ensure_collection_raises(collection)
           \/ /\ run' = [run EXCEPT ![p] =
                           [@ EXCEPT !.node = "End", !.calls = c,
                                     !.output = Some([result |-> None])]]
              /\ collection' = ensure_collection(collection)
    /\ UNCHANGED <<store, nextId, workers, runs>>

\* the collection is absent, or it exists, with any points, and has the
\* payload index (ensure_collection made it) or has none (something else
\* made it, or create_payload_index failed)
InitEnsure ==
    /\ \E c \in Corpora :
         /\ store = StoreOf(c)
         /\ nextId = Len(c) + 1
    /\ collection \in (IF store = {} THEN {"absent", "indexed", "unindexed"}
                       ELSE {"indexed", "unindexed"})
    /\ workers = {"w1"}
    /\ run = [p \in Workers |-> IdleRun]
    /\ runs = 0

NextEnsure ==
    \E p \in Workers :
        \/ StartEnsure(p)
        \/ EnsureCall(p)

SpecEnsure == InitEnsure /\ [][NextEnsure]_vars

\* ---------------------------------------------------- concurrent runs

\* worker p begins its one operation, a re-index of an issue:
\* SingleIssueUpdateNode on the state create_single_issue_update_state
\* builds
StartReindex(p) ==
    /\ p \in workers
    /\ run[p].node = "Idle"
    /\ \E issue \in IssueVersions :
         run' = [run EXCEPT ![p] =
                    [SingleIssueUpdateState(issue) EXCEPT
                        !.first_id = nextId,
                        !.concurrent =
                            \E q \in workers \ {p} :
                                Running(q) /\ run[q].graph = "update"]]
    /\ runs' = runs + 1
    /\ UNCHANGED <<collection, store, nextId, workers>>

\* worker p begins its one operation, a search
StartSearch(p) ==
    /\ p \in workers
    /\ run[p].node = "Idle"
    /\ \E r \in PendingSearch : run' = [run EXCEPT ![p] = r]
    /\ runs' = runs + 1
    /\ UNCHANGED <<collection, store, nextId, workers>>

\* two processes share the collection, in which issue 1 has chunks
InitRace ==
    /\ \E n \in 1..2, m \in {0, 1} :
         /\ store = OldPoints(1, 1, n) \cup OldPoints(n + 1, MaxIssue, m)
         /\ nextId = n + m + 1
    /\ collection = "indexed"
    /\ workers = Workers
    /\ run = [p \in Workers |-> IdleRun]
    /\ runs = 0

NextRace ==
    \E p \in Workers :
        \/ StartReindex(p)
        \/ StartSearch(p)
        \/ SearchCall(p)
        \/ IndexBegin(p)
        \/ ScrollPage(p)
        \/ DeleteOld(p)
        \/ InsertNew(p)

SpecRace == InitRace /\ [][NextRace]_vars

\* ------------------------------------------------------------- claims

Count(d) == Cardinality(Matching(store, d))

\* the payloads upsert_issue_chunks is to leave for the issue of run r
Expected(r) ==
    LET issue == The(r.issue)
    IN  {Payload(issue.number, i - 1, r.chunks[i], issue.title, issue.state,
                 issue.url, issue.labels) : i \in 1..Len(r.chunks)}

\* an index step of worker p has completed and nothing ran since
Indexed(p) ==
    /\ p \in workers
    /\ run[p].node = "End"
    /\ run[p].output # No
    /\ "chunks_indexed" \in DOMAIN The(run[p].output)

\* an index step of worker p was aborted by a failing port call
IndexFailed(p) ==
    /\ p \in workers
    /\ run[p].node = "Abort"
    /\ run[p].issue # No
    /\ run[p].error = "ExternalServiceError"
    /\ Len(run[p].calls) > 0
    /\ run[p].calls[Len(run[p].calls)]
         \in {"ensure_collection", "embed_batch", "scroll", "delete", "upsert"}

\* two points of issue d carry the same chunk_index
Duplicates(d) ==
    \E a, b \in Matching(store, d) :
        a # b /\ a.payload.chunk_index = b.payload.chunk_index

\* C1: once upsert_issue_chunks(d, chunks, ...) has completed, the points
\* of issue d are exactly those built from the given chunks, one per chunk,
\* whatever number of points d had before (more than a scroll page too)
C1_UpsertLeavesExactlyTheChunks ==
    \A p \in Workers :
        Indexed(p) =>
            /\ {pt.payload : pt \in Matching(store, The(run[p].issue).number)}
                 = Expected(run[p])
            /\ Count(The(run[p].issue).number) = Len(run[p].chunks)

\* C1 witness: an upsert over more than two scroll pages of old points
\* completed and wrote several chunks
C1_Witness ==
    \E p \in Workers :
        /\ Indexed(p)
        /\ run[p].before > 2 * ScrollLimit
        /\ Len(run[p].chunks) > 1

\* C2: indexing a document again right after it was indexed, title and body
\* unchanged, leaves as many points for it as the first indexing left
C2_ReindexIsIdempotent ==
    \A p \in Workers :
        (/\ Indexed(p)
         /\ run[p].prev # No
         /\ The(run[p].prev).issue = The(run[p].issue))
        => Count(The(run[p].issue).number) = The(run[p].prev).count

\* C2 witness: the same several-chunk document was indexed twice in a row
C2_Witness ==
    \E p \in Workers :
        /\ Indexed(p)
        /\ run[p].prev # No
        /\ The(run[p].prev).issue = The(run[p].issue)
        /\ The(run[p].prev).count > 1

\* C3: an index operation that a failing port call aborts leaves no
\* duplicate chunk of the document, and leaves the document some chunk when
\* it had chunks before
C3_FailedIndexKeepsAVersion ==
    \A p \in Workers :
        IndexFailed(p) =>
            /\ ~ Duplicates(The(run[p].issue).number)
            /\ (run[p].before > 0 => Count(The(run[p].issue).number) > 0)

\* the limit and the exclusion of the search of run p
LimitOf(p) == IF run[p].graph = "call" THEN run[p].limit
              ELSE run[p].settings.top_k
ExcludedOf(p) == IF run[p].graph = "call" THEN run[p].exclude
                 ELSE Some(run[p].issue_number)

\* document d is the one the search of run p was asked to exclude
IsExcludedDoc(p, d) == ExcludedOf(p) # No /\ d = The(ExcludedOf(p))

\* the neighbours the store returned to the search of run p
Neighbours(p) == QueryPoints(store, Embed(<<"q">>), LimitOf(p) * OverFetch)

\* the query_points call of run p was answered and search_similar_issues
\* went on from there: it returned, or it raised
Answered(p) ==
    /\ p \in workers
    /\ run[p].calls # <<>>
    /\ run[p].calls[Len(run[p].calls)] = "query_points"
    /\ run[p].error # "ExternalServiceError"

Returned(p) == Answered(p) /\ run[p].node # "Abort"

\* what search_similar_issues returned to run p
Hits(p) == IF run[p].graph = "call" THEN The(run[p].output).similar_issues
           ELSE run[p].similar_issues

NonIncreasing(hits) ==
    \A i \in 1..(Len(hits) - 1) : hits[i].similarity >= hits[i + 1].similarity

\* issue d is not excluded and has two neighbours with different scores
TwoScores(p, d) ==
    /\ ~ IsExcludedDoc(p, d)
    /\ \E i, j \in 1..Len(Neighbours(p)) :
         /\ Neighbours(p)[i].payload.issue_number = d
         /\ Neighbours(p)[j].payload.issue_number = d
         /\ Neighbours(p)[i].score # Neighbours(p)[j].score

BestScore(p, d) ==
    LET sc == {Neighbours(p)[i].score : i \in
                 {j \in 1..Len(Neighbours(p)) :
                    Neighbours(p)[j].payload.issue_number = d}}
    IN  CHOOSE x \in sc : \A y \in sc : x >= y

\* C4: a search that excludes issue X returns no hit of X, and the
\* similar_issues of an issue-improvement run never hold the issue itself
C4_SearchExcludesTheIssue ==
    \A p \in Workers :
        /\ (Returned(p) /\ ExcludedOf(p) # No) =>
              \A i \in 1..Len(Hits(p)) :
                  Hits(p)[i].issue_number # The(ExcludedOf(p))
        /\ (p \in workers /\ run[p].graph = "improve") =>
              \A i \in 1..Len(run[p].similar_issues) :
                  run[p].similar_issues[i].issue_number # run[p].issue_number

\* C4 witness: RAGSearchNode found similar issues in a store that holds
\* chunks of the issue being improved
C4_Witness ==
    \E p \in Workers :
        /\ Returned(p)
        /\ run[p].graph = "improve"
        /\ run[p].similar_issues # <<>>
        /\ Matching(store, run[p].issue_number) # {}

\* C5: when the neighbours hold two chunks of one document with different
\* scores, the search completes and returns at most one hit for that
\* document, carrying the larger score
C5_OneHitPerDocumentWithBestScore ==
    \A p \in Workers : \A d \in Issues :
        (Answered(p) /\ TwoScores(p, d)) =>
            /\ Returned(p)
            /\ Cardinality({i \in 1..Len(Hits(p)) :
                              Hits(p)[i].issue_number = d}) <= 1
            /\ \A i \in 1..Len(Hits(p)) :
                  Hits(p)[i].issue_number = d =>
                      Hits(p)[i].similarity = BestScore(p, d)

\* C6: for every limit k and every store content the search returns at
\* most k hits, ordered by non-increasing score
C6_AtMostKHitsInDescendingOrder ==
    \A p \in Workers :
        Answered(p) =>
            /\ Returned(p)
            /\ Len(Hits(p)) <= LimitOf(p)
            /\ NonIncreasing(Hits(p))

\* C7: when the store returns no neighbour, or only neighbours of the
\* excluded document, the search returns the empty sequence and raises
\* nothing
C7_NothingToReturnIsNoError ==
    \A p \in Workers :
        (/\ Answered(p)
         /\ \A i \in 1..Len(Neighbours(p)) :
               IsExcludedDoc(p, Neighbours(p)[i].payload.issue_number))
        => (Returned(p) /\ Hits(p) = <<>>)

\* C7 witness: a search returned nothing from several neighbours, all of
\* the excluded document
C7_Witness ==
    \E p \in Workers :
        /\ Returned(p)
        /\ Hits(p) = <<>>
        /\ Len(Neighbours(p)) > 1
        /\ \A i \in 1..Len(Neighbours(p)) :
              IsExcludedDoc(p, Neighbours(p)[i].payload.issue_number)

\* the run of p has left the validation step behind
Validated(p) ==
    /\ p \in workers
    /\ run[p].graph = "improve"
    /\ run[p].node # "InputValidationNode"

ValidationFailed(p) ==
    Validated(p) /\ run[p].node = "Abort" /\ run[p].at = "InputValidationNode"

\* title and body together, without any whitespace character
Stripped(p) ==
    SelectSeq(run[p].issue_title \o run[p].issue_body,
              LAMBDA ch : ch \notin Whitespace)

\* C8: validation fails the run exactly when title and body, whitespace
\* stripped, have fewer than 10 characters; otherwise the next step is
\* RAGSearchNode with RAG enabled and TemplateDetectionNode without
C8_ValidationFailsIffTooShort ==
    \A p \in Workers :
        Validated(p) =>
            /\ ValidationFailed(p) <=> (Len(Stripped(p)) < MinLength)
            /\ ~ ValidationFailed(p) =>
                  /\ Len(run[p].visited) >= 2
                  /\ run[p].visited[2] = IF run[p].is_rag_enabled
                                         THEN "RAGSearchNode"
                                         ELSE "TemplateDetectionNode"

\* C9: a run aborted by the validation has called no tool and its result
\* fields are as they were built
C9_ValidationFailureHasNoSideEffect ==
    \A p \in Workers :
        ValidationFailed(p) =>
            /\ run[p].calls = <<>>
            /\ run[p].similar_issues = <<>>
            /\ run[p].template_name = None
            /\ run[p].improved_content = No
            /\ run[p].output = No

\* C9 witness: a run with RAG enabled was aborted by the validation
C9_Witness ==
    \E p \in Workers :
        /\ ValidationFailed(p)
        /\ run[p].error = "ValueError"
        /\ run[p].is_rag_enabled

\* the template detection of the run of p has returned
Classified(p) ==
    /\ p \in workers
    /\ run[p].graph = "improve"
    /\ run[p].llm_template # None

\* C10: once the template detection has returned, template_name is a
\* configured template; when the language model named an unknown one it
\* is the default template, and the content generation does not abort on
\* the template
C10_UnknownTemplateFallsBackToUsableDefault ==
    \A p \in Workers :
        Classified(p) =>
            /\ run[p].template_name \in run[p].settings.templates
            /\ run[p].llm_template \notin run[p].settings.templates =>
                  run[p].template_name = run[p].settings.default_template
            /\ ~ (run[p].node = "Abort" /\ run[p].error = "KeyError")

\* the steps a run of the issue-improvement graph goes through when
\* nothing aborts it
ImprovePath(r) ==
    <<"InputValidationNode">>
    \o (IF r.is_rag_enabled THEN <<"RAGSearchNode">> ELSE <<>>)
    \o <<"TemplateDetectionNode", "ContentGenerationNode",
         "CommentFormattingNode", "PostCommentNode">>
    \o (IF r.is_rag_enabled /\ ~ r.dry_run THEN <<"IndexCurrentIssueNode">>
        ELSE <<>>)

IsPrefix(a, b) == Len(a) <= Len(b) /\ a = SubSeq(b, 1, Len(a))

Improving(p) == p \in workers /\ run[p].graph = "improve"

\* C11: the steps a run of the issue-improvement graph has visited are
\* always the first steps of Validate, RAGSearch (exactly with RAG
\* enabled), ClassifyTemplate, GenerateContent, FormatComment,
\* PostOrDryRun, IndexDocument (only with RAG enabled), a run that has
\* ended has visited all of them, and every run ends or aborts
C11_StepsInOrderAndTerminates ==
    /\ [](\A p \in Workers :
            Improving(p) =>
                /\ IsPrefix(run[p].visited, ImprovePath(run[p]))
                /\ run[p].node = "End" => run[p].visited = ImprovePath(run[p]))
    /\ \A p \in Workers :
          [](Improving(p) => <>(run[p].node \in {"End", "Abort"}))

\* C11 witness: a run with RAG enabled has gone through all seven steps
\* and ended
C11_Witness ==
    \E p \in Workers :
        /\ Improving(p)
        /\ run[p].node = "End"
        /\ Len(run[p].visited) = 7

CountOf(calls, c) == Cardinality({i \in 1..Len(calls) : calls[i] = c})

\* C12: in dry-run mode no run calls post_comment, none writes to the
\* points of the store, and a run that ends does so at PostCommentNode
\* with status dry_run
C12_DryRunPostsAndWritesNothing ==
    \A p \in Workers :
        (Improving(p) /\ run[p].dry_run) =>
            /\ CountOf(run[p].calls, "post_comment") = 0
            /\ CountOf(run[p].calls, "upsert") = 0
            /\ CountOf(run[p].calls, "delete") = 0
            /\ run[p].posted = No
            /\ \A pt \in store : pt.id < run[p].first_id
            /\ run[p].node = "End" =>
                  /\ run[p].visited[Len(run[p].visited)] = "PostCommentNode"
                  /\ The(run[p].output).status = "dry_run"

\* C12 witness: a dry run with RAG enabled has ended
C12_Witness ==
    \E p \in Workers :
        /\ Improving(p)
        /\ run[p].dry_run
        /\ run[p].is_rag_enabled
        /\ run[p].node = "End"

\* the positions of call c in the calls of run p
Positions(p, c) == {i \in 1..Len(run[p].calls) : run[p].calls[i] = c}

\* C13: with dry-run off post_comment is called at most once, and exactly
\* once, with the comment the state holds, in a run that ends; the run
\* ends with status indexed when RAG is enabled and comment_posted when it
\* is not; no upsert comes before the post
C13_PostOnceThenIndex ==
    \A p \in Workers :
        (Improving(p) /\ ~ run[p].dry_run) =>
            /\ CountOf(run[p].calls, "post_comment") <= 1
            /\ \A i \in Positions(p, "upsert") :
                  \E j \in Positions(p, "post_comment") : j < i
            /\ \A pt \in store :
                  pt.id >= run[p].first_id => run[p].posted # No
            /\ run[p].node = "End" =>
                  /\ CountOf(run[p].calls, "post_comment") = 1
                  /\ run[p].posted = run[p].improved_content
                  /\ The(run[p].posted)[1] = "header"
                  /\ The(run[p].output).status =
                        IF run[p].is_rag_enabled THEN "indexed"
                        ELSE "comment_posted"

\* C13 witness: a run with RAG enabled has posted its comment and then
\* indexed the issue
C13_Witness ==
    \E p \in Workers :
        /\ Improving(p)
        /\ ~ run[p].dry_run
        /\ run[p].node = "End"
        /\ run[p].posted # No
        /\ run[p].written # {}

\* a bulk index run over a list of documents
Bulk(p) ==
    /\ p \in workers
    /\ run[p].graph = "index"
    /\ run[p].state_type = "RAGIndexState"

\* the issue numbers of the first n documents of the list of run p
Numbers(p, n) == [i \in 1..n |-> run[p].issues[i].number]

\* C14: a bulk index run that no port call fails runs RAGIndexInitNode
\* once and reaches the end: every document of the list has then been
\* indexed once, in list order, and the result says success = total = the
\* length of the list (0 and 0, nothing indexed, for the empty list)
C14_BulkRunIndexesEveryDocumentOnce ==
    /\ [](\A p \in Workers :
            (Bulk(p) /\ run[p].node = "End") =>
                /\ CountOf(run[p].visited, "RAGIndexInitNode") = 1
                /\ CountOf(run[p].calls, "ensure_collection") = 1
                /\ run[p].done = Numbers(p, Len(run[p].issues))
                /\ CountOf(run[p].calls, "upsert") = Len(run[p].issues)
                /\ CountOf(run[p].calls, "embed_batch") = Len(run[p].issues)
                /\ The(run[p].output) = [success |-> Len(run[p].issues),
                                         total |-> Len(run[p].issues)])
    /\ \A p \in Workers :
          [](Bulk(p) => <>(run[p].node = "End" \/ run[p].error # None))

\* C14 witness: a bulk run over MaxDocs documents has ended
C14_Witness ==
    \E p \in Workers :
        /\ Bulk(p)
        /\ run[p].node = "End"
        /\ Len(run[p].issues) = MaxDocs

\* C15: a bulk run has begun at most one document more than it has
\* indexed; when a port call fails on the document under the cursor the
\* run is aborted there, success_count is the number of documents before
\* it, and no later document has been chunked, embedded or written
C15_BulkRunHaltsAtTheFailingDocument ==
    \A p \in Workers :
        Bulk(p) =>
            /\ CountOf(run[p].calls, "embed_batch") <= run[p].success_count + 1
            /\ (run[p].error # None /\ run[p].at = "RAGIndexProcessNode") =>
                  /\ run[p].node = "Abort"
                  /\ run[p].output = No
                  /\ run[p].success_count = run[p].current_index
                  /\ run[p].done = Numbers(p, run[p].current_index)
                  /\ CountOf(run[p].calls, "embed_batch")
                        = run[p].current_index + 1
                  /\ \A pt \in store :
                        pt.id >= run[p].first_id =>
                            \E i \in 1..run[p].current_index :
                                pt.payload.issue_number = run[p].issues[i].number

\* C15 witness: of three documents the first was indexed and a port call
\* failed on the second
C15_Witness ==
    \E p \in Workers :
        /\ Bulk(p)
        /\ Len(run[p].issues) = 3
        /\ run[p].node = "Abort"
        /\ run[p].at = "RAGIndexProcessNode"
        /\ run[p].success_count = 1

\* C16: a run of the update graph that started at FetchIssueNode, found
\* the issue and ended has upserted the chunks of the fetched issue
C16_FetchedDocumentIsIndexed ==
    \A p \in Workers :
        (/\ p \in workers
         /\ run[p].graph = "update"
         /\ run[p].visited[1] = "FetchIssueNode"
         /\ run[p].fetched_issue # No
         /\ run[p].node = "End") =>
            /\ CountOf(run[p].calls, "upsert") = 1
            /\ run[p].done = <<The(run[p].fetched_issue).number>>

\* C17: in each of the three graphs, once a step has raised an error the
\* run is aborted at that step with no terminal result, and nothing of the
\* run changes afterwards: no step is invoked, the failed one included
C17_RaisingStepAbortsTheRun ==
    /\ [](\A p \in Workers :
            run[p].error # None =>
                /\ run[p].node = "Abort"
                /\ run[p].output = No
                /\ run[p].at = run[p].visited[Len(run[p].visited)])
    /\ [][\A p \in Workers : run[p].error # None => run'[p] = run[p]]_vars

\* C17 witness: a port call of a later step of a run has failed
C17_Witness ==
    \E p \in Workers :
        /\ run[p].error = "ExternalServiceError"
        /\ Len(run[p].visited) >= 2
        /\ run[p].calls # <<>>

ChunkIndexes(d) == {pt.payload.chunk_index : pt \in Matching(store, d)}

\* C19: with index operations run one after the other, the points of
\* every issue carry the chunk_index values 0..n-1, each once, n being the
\* number of its points
C19_ChunkIndexesAreContiguous ==
    \A d \in Issues : ChunkIndexes(d) = 0..(Count(d) - 1)

\* C19 witness: an index operation has replaced the chunks of an issue by
\* fewer, and more than one, new chunks
C19_Witness ==
    \E p \in Workers :
        /\ Indexed(p)
        /\ run[p].before > Len(run[p].chunks)
        /\ Len(run[p].chunks) >= 2
        /\ Count(The(run[p].issue).number) = Len(run[p].chunks)

\* C20: the chunks_indexed an index step reports is the number of points
\* its upsert wrote, and they are the points the issue has in the store
C20_ReportedCountIsWrittenCount ==
    \A p \in Workers :
        Indexed(p) =>
            /\ The(run[p].output).chunks_indexed = Cardinality(run[p].written)
            /\ run[p].written =
                   {pt.id : pt \in Matching(store, The(run[p].issue).number)}

\* C20 witness: an index step that followed a posted comment reports more
\* than one chunk
C20_Witness ==
    \E p \in Workers :
        /\ Indexed(p)
        /\ run[p].node = "End"
        /\ run[p].posted # No
        /\ The(run[p].output).chunks_indexed >= 2

\* a call of create_issue_chunks by worker p has returned
Chunked(p) ==
    /\ p \in workers
    /\ run[p].graph = "chunk"
    /\ run[p].node = "End"

\* the text create_issue_chunks was given by worker p
SourceText(p) == run[p].issue_title \o <<NL, NL>> \o run[p].issue_body

\* C21: when title, blank line and body together have at most 400
\* characters, create_issue_chunks returns one chunk, that text
C21_ShortTextIsOneChunk ==
    \A p \in Workers :
        (Chunked(p) /\ Len(SourceText(p)) <= 400) =>
            The(run[p].output) = << SourceText(p) >>

\* C21 witness: the call returned for a text of exactly 400 characters
\* that ends in white space
C21_Witness ==
    \E p \in Workers :
        /\ Chunked(p)
        /\ Len(SourceText(p)) = 400
        /\ SourceText(p)[400] \in Whitespace
        /\ Len(The(run[p].output)) = 1

\* chunks i.. continue a text of which the first pos characters are
\* rebuilt: each chunk lies in the text, starting at most the overlap
\* before the end of what is rebuilt, and the last one ends the text
RECURSIVE Rebuilds(_, _, _, _)
Rebuilds(text, chunks, i, pos) ==
    IF i > Len(chunks) THEN pos = Len(text)
    ELSE LET c == chunks[i]
         IN  \E o \in 0..MinOf({ChunkOverlap, Len(c), pos}) :
                /\ pos - o + Len(c) <= Len(text)
                /\ SubSeq(text, pos - o + 1, pos - o + Len(c)) = c
                /\ Rebuilds(text, chunks, i + 1, pos - o + Len(c))

\* C22: create_issue_chunks returns at least one chunk, no empty chunk,
\* and the chunks without their overlaps, put together, are title, blank
\* line, body
C22_ChunksRebuildTheText ==
    \A p \in Workers :
        Chunked(p) =>
            LET chunks == The(run[p].output)
            IN  /\ chunks # <<>>
                /\ \A i \in 1..Len(chunks) : chunks[i] # <<>>
                /\ Rebuilds(SourceText(p), chunks, 1, 0)

\* the documents of the store the search of run p may return
Eligible(p) ==
    {d \in {pt.payload.issue_number : pt \in store} : ~ IsExcludedDoc(p, d)}

\* the score of the chunk of document d most similar to the query
StoreBest(d) ==
    LET sc == {Score(Embed(<<"q">>), pt.vector) : pt \in Matching(store, d)}
    IN  CHOOSE x \in sc : \A y \in sc : x >= y

\* C23: the search returns the k non-excluded documents of the store with
\* the highest best-chunk scores, one hit each, or all of them when there
\* are fewer than k, however many chunks each document has
C23_TopDocumentsOfTheWholeStore ==
    \A p \in Workers :
        Answered(p) =>
            /\ Returned(p)
            /\ Len(Hits(p)) = MinOf({LimitOf(p), Cardinality(Eligible(p))})
            /\ \A i \in 1..Len(Hits(p)) :
                  /\ Hits(p)[i].issue_number \in Eligible(p)
                  /\ Hits(p)[i].similarity = StoreBest(Hits(p)[i].issue_number)
                  /\ \A j \in 1..Len(Hits(p)) :
                        i # j => Hits(p)[i].issue_number # Hits(p)[j].issue_number
                  /\ \A d \in Eligible(p) :
                        (\A j \in 1..Len(Hits(p)) : Hits(p)[j].issue_number # d)
                            => StoreBest(d) <= Hits(p)[i].similarity

\* C24: once ensure_collection has returned, the collection exists and
\* has the payload index on issue_number, whatever it was before
C24_EnsuredCollectionHasTheIndex ==
    \A p \in Workers :
        (/\ p \in workers
         /\ run[p].graph = "ensure"
         /\ run[p].node = "End") => collection = "indexed"

\* the port call of run p made right before its i-th
Before(p, i) == IF i > 1 THEN run[p].calls[i - 1] ELSE ""

\* C25, as stated: in every index operation the existing chunks are
\* enumerated and deleted before the text is embedded, and the insert
\* follows the embedding
C25_DeleteBeforeChunkAndEmbed ==
    \A p \in Workers : \A i \in 1..Len(run[p].calls) :
        /\ run[p].calls[i] = "embed_batch" => Before(p, i) \in {"scroll", "delete"}
        /\ run[p].calls[i] = "upsert" => Before(p, i) = "embed_batch"

\* C25, amended: every index operation makes its port calls in the order
\* ensure collection (in a bulk run once, before the first document),
\* batch-embed the chunks of the current text, enumerate the existing
\* chunk ids page by page, batch-delete them, insert the new records
C25_EmbedBeforeDelete ==
    \A p \in Workers : \A i \in 1..Len(run[p].calls) :
        /\ run[p].calls[i] = "embed_batch" =>
              \/ Before(p, i) = "ensure_collection"
              \/ run[p].graph = "index" /\ Before(p, i) = "upsert"
        /\ run[p].calls[i] = "scroll" => Before(p, i) \in {"embed_batch", "scroll"}
        /\ run[p].calls[i] = "delete" => Before(p, i) = "scroll"
        /\ run[p].calls[i] = "upsert" => Before(p, i) \in {"scroll", "delete"}

\* C25 witness: an index operation on an issue that had chunks has made
\* all its calls
C25_Witness ==
    \E p \in Workers :
        /\ run[p].node = "End"
        /\ run[p].calls = <<"ensure_collection", "embed_batch", "scroll",
                            "delete", "upsert">>

\* the calls of run p before its i-th that are calls `c`
CallsBefore(p, i, c) == Cardinality({j \in 1..(i - 1) : run[p].calls[j] = c})

\* C26: in a bulk run every call for a document (embed, scroll, delete,
\* insert) comes after the insert of each earlier document of the list:
\* one document is open at a time, and the documents before the cursor
\* hold their new chunks
C26_BulkRunIsSequential ==
    \A p \in Workers :
        Bulk(p) =>
            /\ \A i \in 1..Len(run[p].calls) :
                  /\ run[p].calls[i] = "embed_batch" =>
                        CallsBefore(p, i, "upsert")
                            = CallsBefore(p, i, "embed_batch")
                  /\ run[p].calls[i] \in {"scroll", "delete", "upsert"} =>
                        CallsBefore(p, i, "upsert")
                            = CallsBefore(p, i, "embed_batch") - 1
            /\ run[p].done = Numbers(p, run[p].current_index)
            /\ \A i \in 1..run[p].current_index :
                  Count(run[p].issues[i].number)
                      = Len(Chunks(run[p].issues[i].title, run[p].issues[i].body))

\* C26 witness: the second of several documents is between its delete
\* and its insert, the first one indexed
C26_Witness ==
    \E p \in Workers :
        /\ Bulk(p)
        /\ run[p].current_index = 1
        /\ run[p].pos = "insert"
        /\ run[p].calls[Len(run[p].calls)] = "delete"
        /\ Len(run[p].issues) >= 2

\* the inputs of the run of p: issue number, title, body, RAG flag,
\* dry-run flag
Inputs(r) ==
    <<r.issue_number, r.issue_title, r.issue_body, r.is_rag_enabled, r.dry_run>>

\* C27: no step of an issue-improvement run empties similar_issues,
\* template_name or improved_content once it has a value, and no step
\* changes the inputs of the run
C27_WorkflowStateIsAppendOnly ==
    [][\A p \in Workers :
          Improving(p) =>
              /\ run[p].similar_issues # <<>> => run'[p].similar_issues # <<>>
              /\ run[p].template_name # None => run'[p].template_name # None
              /\ run[p].improved_content # No =>
                    /\ run'[p].improved_content # No
                    /\ The(run'[p].improved_content) # <<>>
              /\ Inputs(run'[p]) = Inputs(run[p])]_vars

\* C27 witness: a run that found similar issues, chose a template and
\* generated content has formatted and posted its comment
C27_Witness ==
    \E p \in Workers :
        /\ Improving(p)
        /\ run[p].similar_issues # <<>>
        /\ run[p].template_name # None
        /\ run[p].posted # No
        /\ run[p].node = "End"

\* the position of the first neighbour of document d in the answer to the
\* search of run p
FirstSeen(p, d) ==
    MinOf({i \in 1..Len(Neighbours(p)) : Neighbours(p)[i].payload.issue_number = d})

\* the positions of the neighbours of document d with the best score of d
BestChunks(p, d) ==
    {i \in 1..Len(Neighbours(p)) :
        /\ Neighbours(p)[i].payload.issue_number = d
        /\ Neighbours(p)[i].score = BestScore(p, d)}

\* C28: hits with equal scores come in the order their documents were
\* first seen among the neighbours, and of two equally good chunks of one
\* document the hit is built from the one seen first
C28_TiesKeepFirstSeenOrder ==
    \A p \in Workers :
        Answered(p) =>
            /\ \A d \in Issues :
                  (~ IsExcludedDoc(p, d) /\ Cardinality(BestChunks(p, d)) >= 2) =>
                      /\ Returned(p)
                      /\ \A i \in 1..Len(Hits(p)) :
                            Hits(p)[i].issue_number = d =>
                                Hits(p)[i].issue_body =
                                    Take(BodyOf(Neighbours(p)[MinOf(BestChunks(p, d))].payload),
                                         ExcerptLen)
            /\ Returned(p) =>
                  \A i, j \in 1..Len(Hits(p)) :
                      (i < j /\ Hits(p)[i].similarity = Hits(p)[j].similarity) =>
                          FirstSeen(p, Hits(p)[i].issue_number)
                              < FirstSeen(p, Hits(p)[j].issue_number)

\* worker w is re-indexing, or was, issue d
Reindexing(w, d) ==
    /\ w \in workers
    /\ run[w].graph = "update"
    /\ run[w].issue # No
    /\ The(run[w].issue).number = d

\* a re-index of issue d is between its batch delete and its insert
InWindow(d) ==
    \E w \in Workers :
        /\ Reindexing(w, d)
        /\ run[w].calls # <<>>
        /\ run[w].calls[Len(run[w].calls)] = "delete"
        /\ run[w].node # "Abort"

\* the insert of a re-index of issue d failed after its batch delete: the
\* window of that re-index stays open
InsertFailed(d) ==
    \E w \in Workers :
        /\ Reindexing(w, d)
        /\ Len(run[w].calls) >= 2
        /\ run[w].calls[Len(run[w].calls)] = "upsert"
        /\ run[w].calls[Len(run[w].calls) - 1] = "delete"
        /\ run[w].node = "Abort"

\* issue d had chunks when a re-index of it began, or a re-index of it is
\* complete
WasIndexed(d) ==
    \E w \in Workers :
        Reindexing(w, d) /\ (run[w].before > 0 \/ run[w].done # <<>>)

OneVersion(d) ==
    \E w \in Workers :
        /\ Reindexing(w, d)
        /\ {pt.payload : pt \in {x \in store : x.payload.issue_number = d}}
               = Expected(run[w])
        /\ Cardinality({x \in store : x.payload.issue_number = d})
               = Len(run[w].chunks)

\* both workers have completed a re-index of issue d
BothReindexed(d) ==
    \A w \in Workers : Reindexing(w, d) /\ run[w].node = "End"

\* C30: when two re-indexes of one issue that ran one after the other
\* have both finished, the stored chunks of the issue are exactly the
\* chunks of one version
C30_SerializedReindexesLeaveOneVersion ==
    \A d \in Issues :
        (BothReindexed(d) /\ \A w \in Workers : ~run[w].concurrent) =>
            OneVersion(d)

\* C30 witness: two re-indexes of one issue that overlapped, each with its
\* batch delete, have both finished, and the issue has the chunks of both
\* versions, with repeated chunk_index values
C30_Witness ==
    \E d \in Issues :
        /\ BothReindexed(d)
        /\ \E w \in Workers : run[w].concurrent
        /\ \A w \in Workers :
               \E i \in 1..Len(run[w].calls) : run[w].calls[i] = "delete"
        /\ run["w1"].chunks # run["w2"].chunks
        /\ ~OneVersion(d)
        /\ \A w \in Workers :
               Expected(run[w]) \subseteq
                   {pt.payload : pt \in {x \in store : x.payload.issue_number = d}}
        /\ \E x, y \in store :
               /\ x.id # y.id
               /\ x.payload.issue_number = d /\ y.payload.issue_number = d
               /\ x.payload.chunk_index = y.payload.chunk_index

\* the points of the collection that carry issue number d
Stored(d) == {pt \in store : pt.payload.issue_number = d}

\* worker w takes the step, a store call of a re-index of issue d
ReindexStep(w, d) == Reindexing(w, d) /\ run'[w] # run[w]

\* a completed re-index of issue d by worker w, no other worker
\* re-indexing d
ReindexedAlone(w, d) ==
    /\ Reindexing(w, d)
    /\ run[w].node = "End"
    /\ \A q \in Workers \ {w} : ~Reindexing(q, d)

\* C31: a store call of a re-index of issue d removes and adds only points
\* whose issue_number is d, every other point staying as it is; and
\* a completed re-index of d, whatever another worker did to another issue
\* meanwhile, has left exactly the chunks of its version as the points of d
C31_ReindexTouchesOnlyItsOwnDocument ==
    /\ [][\A pt \in (store \ store') \cup (store' \ store) :
             \E w \in Workers : ReindexStep(w, pt.payload.issue_number)]_vars
    /\ [](\A w \in Workers : \A d \in Issues :
             ReindexedAlone(w, d) =>
                 /\ {pt.payload : pt \in Stored(d)} = Expected(run[w])
                 /\ Cardinality(Stored(d)) = Len(run[w].chunks))

\* C31 witness: two re-indexes of different issues whose store calls
\* interleaved have both completed, each after a batch delete, and each
\* issue has the chunks of its own version
C31_Witness ==
    \E d, e \in Issues :
        /\ d # e
        /\ ReindexedAlone("w1", d) /\ ReindexedAlone("w2", e)
        /\ \E w \in Workers : run[w].concurrent
        /\ \A w \in Workers :
               \E i \in 1..Len(run[w].calls) : run[w].calls[i] = "delete"
        /\ {pt.payload : pt \in Stored(d)} = Expected(run["w1"])
        /\ {pt.payload : pt \in Stored(e)} = Expected(run["w2"])

\* the calls that query, scan, delete from or insert into the collection
StoreCalls == {"query_points", "scroll", "delete", "upsert"}

\* C32: in every run of the three graphs, a call of ensure_collection
\* precedes the first query, scroll, delete or upsert of the run; it has
\* returned, a call that raises being the last of its run
C32_EnsureCollectionBeforeTheFirstStoreCall ==
    \A p \in Workers : \A i \in 1..Len(run[p].calls) :
        run[p].calls[i] \in StoreCalls =>
            /\ \E j \in 1..(i - 1) : run[p].calls[j] = "ensure_collection"
            /\ collection # "absent"

\* C32 witness: a bulk run has reached the store with its second document
C32_Witness ==
    \E p \in Workers :
        /\ run[p].graph = "index"
        /\ run[p].current_index = 1
        /\ run[p].calls # <<>>
        /\ run[p].calls[Len(run[p].calls)] \in StoreCalls
        /\ run[p].calls[1] = "ensure_collection"

\* the cursor of a bulk run is inside its list and counts the successes
CursorInList(r) ==
    /\ r.success_count = r.current_index
    /\ 0 <= r.current_index
    /\ r.current_index <= r.total_issues
    /\ r.total_issues = Len(r.issues)

\* one step of a bulk run from r to s: the list stays; the cursor stays, or
\* moves by one as the insert of the document under it returns; a
\* document is read only from under a cursor inside the list
CursorStep(r, s) ==
    /\ s.issues = r.issues
    /\ s.total_issues = r.total_issues
    /\ \/ s.current_index = r.current_index /\ s.done = r.done
       \/ /\ s.current_index = r.current_index + 1
          /\ r.current_index < Len(r.issues)
          /\ s.done = Append(r.done, r.issues[r.current_index + 1].number)
          /\ s.calls = Append(r.calls, "upsert")
          /\ s.error = None
    /\ s.issue # r.issue =>
          /\ r.current_index < Len(r.issues)
          /\ s.issue = Some(r.issues[r.current_index + 1])

\* C33: in every state of a bulk index run success_count = current_index
\* and 0 <= current_index <= total_issues = the length of the list; a step
\* leaves the cursor or moves it by one, with an indexed document, and
\* reads a document only from under a cursor inside the list
C33_BulkCursorStaysInsideTheList ==
    /\ [](\A p \in Workers : run[p].graph = "index" => CursorInList(run[p]))
    /\ [][\A p \in Workers :
             run[p].graph = "index" => CursorStep(run[p], run'[p])]_vars

\* C33 witness: a bulk run over MaxDocs documents has left its list, and
\* counts MaxDocs successes
C33_Witness ==
    \E p \in Workers :
        /\ Bulk(p)
        /\ run[p].node = "RAGIndexCompleteNode"
        /\ run[p].current_index = MaxDocs
        /\ run[p].success_count = MaxDocs
        /\ Len(run[p].done) = MaxDocs

\* C34: no run of the three graphs, begun from the state and the settings
\* its entry point hands to the engine, is aborted because a step reads an
\* attribute the state or the settings do not have
C34_NoRunAbortsOnAMissingAttribute ==
    \A p \in Workers : p \in workers => run[p].error # "AttributeError"

====
